---- MODULE Spec2Model ----
(***************************************************************************)
(* Calendar synchronisation of the roommate backend                        *)
(* (src/src/backend/roommate_app.py): the calendar_events table, the Flask *)
(* session holding the Google tokens, and the handlers that read and write *)
(* them.  The clients are the tabs of one browser: they share the cookie   *)
(* that carries the Flask session, each runs one request at a time, and    *)
(* their requests interleave at the network calls and SQLite statements.   *)
(***************************************************************************)
EXTENDS Integers, Sequences, FiniteSets, TLC

\* ---------------------------------------------------------------- bounds
\* the number of requests the clients send
MaxRequests == 4
\* longest item list the provider returns in one events.list answer.
MaxFetch == 2

\* ------------------------------------------------------------ value pools
ClientOrder == << "c1", "c2" >>

Clients == {ClientOrder[i] : i \in DOMAIN ClientOrder}
NoClient == "none"

\* a key that is absent from a dict / a query string
Missing == "<missing>"
\* Python None, JSON null, SQL NULL
None == "<None>"

\* datetime.now() at the insert that draws uuid number n: the clock moves
\* between any two inserts, so every insert reads a later time
Now(n) == n

\* the text order SQLite uses on the start_date strings of the pools
DateOrder ==
  << "2024-01-01", "2024-01-10T18:00", "2024-01-15", "2024-01-16",
     "2024-01-20T19:00", "2024-01-31" >>

Rank(s) == CHOOSE i \in DOMAIN DateOrder : DateOrder[i] = s

\* dict.get(key, default) on a value that is Missing when the key is absent
Get(v, default) == IF v = Missing THEN default ELSE v

\* Python truthiness of a token / query argument
Falsy(v) == v \in {Missing, None, ""}

\* json.dumps / json.loads of a list of strings
json_dumps(list) == [json |-> list]
json_loads(text) == text.json

\* --- items of a Google events.list answer.  An absent "start"/"end" dict
\* --- and an empty one behave alike under event.get('start', {}), and so
\* --- do an absent and an empty "attendees" list.
NoTime == [dateTime |-> Missing, date |-> Missing]

gDinner ==
  [id |-> "g1", summary |-> "Dinner", description |-> "at home",
   start |-> [dateTime |-> "2024-01-10T18:00", date |-> Missing],
   end |-> [dateTime |-> "2024-01-10T20:00", date |-> Missing],
   attendees |-> << [email |-> "a@x.io"] >>, location |-> "Kitchen"]

gAllDay ==
  [id |-> "g2", summary |-> Missing, description |-> Missing,
   start |-> [dateTime |-> Missing, date |-> "2024-01-15"],
   end |-> [dateTime |-> Missing, date |-> "2024-01-16"],
   attendees |-> << [email |-> Missing] >>, location |-> Missing]

\* malformed: no start at all
gNoStart ==
  [id |-> "g3", summary |-> "Broken", description |-> Missing,
   start |-> NoTime, end |-> NoTime,
   attendees |-> << >>, location |-> Missing]

\* malformed: no id
gNoId ==
  [id |-> Missing, summary |-> "Ghost", description |-> Missing,
   start |-> [dateTime |-> Missing, date |-> "2024-01-15"],
   end |-> NoTime, attendees |-> << >>, location |-> Missing]

\* the provider's events, in the order of an answer (orderBy=startTime)
GoogleItems == << gDinner, gAllDay, gNoStart, gNoId >>

\* the answers of the provider: some of its events, in that order
ItemSeqs ==
  {[i \in DOMAIN pick |-> GoogleItems[pick[i]]] :
     pick \in {s \in UNION {[1..n -> DOMAIN GoogleItems] : n \in 0..MaxFetch} :
                \A i, j \in DOMAIN s : i < j => s[i] < s[j]}}

\* --- outcomes of one HTTP call to the provider
Net(kind, status_code, items, id) ==
  [kind |-> kind, status_code |-> status_code, items |-> items, id |-> id]

\* no call was made
NoNet == Net("none", 0, << >>, Missing)

NetException == Net("exception", 0, << >>, Missing)

ListOutcomes ==
  {Net("response", 200, s, Missing) : s \in ItemSeqs}
    \cup {Net("response", c, << >>, Missing) : c \in {401, 403, 500}}
    \cup {NetException}

CreateOutcomes ==
  {Net("response", 200, << >>, "ext-42"),
   Net("response", 200, << >>, Missing),
   Net("response", 201, << >>, "ext-43"),
   Net("response", 403, << >>, Missing),
   NetException}

TokenInfo(access_token, refresh_token) ==
  [kind |-> "response", access_token |-> access_token,
   refresh_token |-> refresh_token]

\* no exchange was made
NoTokenInfo == [kind |-> "none", access_token |-> Missing,
                refresh_token |-> Missing]

TokenOutcomes ==
  {TokenInfo("at1", "rt1"), TokenInfo("at2", Missing),
   TokenInfo(Missing, Missing),
   [kind |-> "exception", access_token |-> Missing,
    refresh_token |-> Missing]}

\* --- request.json of the calendar endpoints
dParty ==
  [title |-> "Party", description |-> "bring snacks",
   start_date |-> "2024-01-20T19:00", end_date |-> "2024-01-20T23:00",
   type |-> Missing, created_by |-> "Sam",
   attendees |-> << "b@x.io" >>, location |-> "Roof"]

\* only the keys every endpoint but the push and the create insist on
dMinimal ==
  [title |-> "Rent due", description |-> Missing,
   start_date |-> "2024-01-31", end_date |-> Missing,
   type |-> Missing, created_by |-> Missing,
   attendees |-> << >>, location |-> Missing]

dTagged ==
  [title |-> "Party", description |-> Missing,
   start_date |-> "2024-01-20T19:00", end_date |-> "2024-01-20T23:00",
   type |-> "google_sync", created_by |-> "Sam",
   attendees |-> << >>, location |-> Missing]

Drafts == {dParty, dMinimal, dTagged}

NoDraft ==
  [title |-> Missing, description |-> Missing, start_date |-> Missing,
   end_date |-> Missing, type |-> Missing, created_by |-> Missing,
   attendees |-> << >>, location |-> Missing]

\* --- query arguments start_date / end_date of GET /api/calendar/events
NoRange == [start_date |-> Missing, end_date |-> Missing]

Ranges == {NoRange, [start_date |-> "2024-01-01", end_date |-> "2024-01-16"]}

\* --- photos and the users who like them
PhotoIds == {"p1"}

\* an id no photo has
NoPhoto == "p0"

\* the user of the browser a client stands for
LikeUser(c) == IF c = ClientOrder[1] THEN "ann" ELSE "ben"

\* ------------------------------------------------------------------ state
VARIABLES
  calendar_events,  \* the committed rows of table calendar_events
  lock,             \* the client whose connection holds SQLite's write lock
  session,          \* the Flask session (the browser's cookie)
  pc,               \* where every client's current request stands
  loc,              \* the locals of every client's current request
  response,         \* the response the last step sent, if it sent one
  nextId,           \* the next uuid4: they are modelled as 1, 2, ...
  requests,         \* the number of requests sent so far
  lastFetch,        \* history: the events of the latest successful fetch
  pushed,           \* history: the ids of the stored rows a push inserted
  photos            \* column likes of table photos, by photo id

vars ==
  << calendar_events, lock, session, pc, loc, response, nextId, requests,
     lastFetch, pushed, photos >>

NoSession == [google_access_token |-> Missing, google_refresh_token |-> Missing]

\* an open transaction: the rows it deleted and the rows it inserted
NoTx == [deleted |-> {}, inserted |-> {}]

\* the rows a connection sees, or commits, on top of the committed rows
Apply(rows, tx) == (rows \ tx.deleted) \cup tx.inserted

\* op: the handler; access_token: the token it read; net: the provider's
\* answer; tx: its open transaction.  History: tx_start, the committed rows
\* when the transaction began; raced, another sync committed after the fetch
\* of this one; repeat, the sync found the rows of an equal fetch in place
IdleLoc ==
  [op |-> "none", access_token |-> Missing, net |-> NoNet, data |-> NoDraft,
   google_events |-> << >>, inserted |-> 0, tx |-> NoTx, tx_start |-> {},
   raced |-> FALSE, repeat |-> FALSE,
   user |-> Missing, photo_id |-> Missing, likes |-> << >>]

\* a response: status_code and error, the count of the sync message, the id
\* of the push, the list of the range query.  History: net and data, the
\* provider's answer and the draft of the request; google_events, raced and
\* repeat of the sync that sent it and the number of rows its DELETE removed;
\* range and mid, the arguments of the range query and the client that was
\* between DELETE and commit at its SELECT; token_info, the provider's
\* answer to the code exchange.  authenticated is the body of the status
\* query; event_id is the 'id' of the body of the create endpoint (0: the
\* body has no local id)
Res(op, status_code, error) ==
  [op |-> op, status_code |-> status_code, error |-> error,
   net |-> NoNet, data |-> NoDraft, synced |-> 0, id |-> Missing,
   events |-> << >>, google_events |-> << >>, deleted |-> 0,
   raced |-> FALSE, repeat |-> FALSE, range |-> NoRange, mid |-> NoClient,
   token_info |-> NoTokenInfo, authenticated |-> FALSE, event_id |-> 0,
   user |-> Missing, photo_id |-> Missing]

NoResponse == Res("none", 0, "")

NoEvents == [ok |-> FALSE, events |-> << >>]

Init ==
  /\ calendar_events = {}
  /\ lock = NoClient
  /\ session = NoSession
  /\ pc = [c \in Clients |-> "idle"]
  /\ loc = [c \in Clients |-> IdleLoc]
  /\ response = NoResponse
  /\ nextId = 1
  /\ requests = 0
  /\ lastFetch = NoEvents
  /\ pushed = {}
  /\ photos = [p \in PhotoIds |-> json_dumps(<< >>)]

\* client c, idle, sends a request
Send(c) ==
  /\ pc[c] = "idle"
  /\ requests < MaxRequests
  /\ requests' = requests + 1

\* the request of client c ends with response res; its locals are gone
Finish(c, res) ==
  /\ pc' = [pc EXCEPT ![c] = "idle"]
  /\ loc' = [loc EXCEPT ![c] = IdleLoc]
  /\ response' = res

\* ---------------------------------------------------------------- OAuth
\* GET /api/auth/google: the consent-screen URL
google_auth(c) ==
  /\ Send(c)
  /\ Finish(c, Res("auth_url", 200, ""))
  /\ UNCHANGED << calendar_events, lock, session,
                  nextId, lastFetch, pushed, photos >>

\* as Authenticated, by the refresh token
Authenticated_refresh(s) == ~Falsy(s.google_refresh_token)

\* bool(session.get('google_access_token'))
Authenticated(s) == ~Falsy(s.google_access_token)

\* GET /api/auth/google/status
google_auth_status(c) ==
  /\ Send(c)
  /\ Finish(c, [Res("status", 200, "") EXCEPT
                  !.authenticated = Authenticated(session)])
  /\ UNCHANGED << calendar_events, lock, session,
                  nextId, lastFetch, pushed, photos >>

\* as google_callback, with a failed exchange clearing the session
google_callback_forgets(c) ==
  /\ Send(c)
  /\ \E code \in {Missing, "code"} :
       \E token_info \in (IF Falsy(code) THEN {TokenInfo(Missing, Missing)}
                          ELSE TokenOutcomes) :
         IF Falsy(code)
         THEN /\ Finish(c, Res("callback", 400,
                               "Authorization code not provided"))
              /\ UNCHANGED session
         ELSE IF token_info.kind = "exception"
                   \/ token_info.access_token = Missing
         THEN /\ Finish(c, [Res("callback", 302, "auth=error") EXCEPT
                                !.token_info = token_info])
              /\ session' = NoSession
         ELSE /\ Finish(c, [Res("callback", 302, "") EXCEPT
                                !.token_info = token_info])
              /\ session' =
                   [google_access_token |-> token_info.access_token,
                    google_refresh_token |->
                      IF token_info.refresh_token # Missing
                      THEN token_info.refresh_token
                      ELSE session.google_refresh_token]
  /\ UNCHANGED << calendar_events, lock, nextId, lastFetch, pushed, photos >>

\* GET /api/auth/google/callback
google_callback(c) ==
  /\ Send(c)
  /\ \E code \in {Missing, "code"} :
       \E token_info \in (IF Falsy(code) THEN {TokenInfo(Missing, Missing)}
                          ELSE TokenOutcomes) :
         IF Falsy(code)
         THEN /\ Finish(c, Res("callback", 400,
                               "Authorization code not provided"))
              /\ UNCHANGED session
         ELSE IF token_info.kind = "exception"
                   \/ token_info.access_token = Missing
         THEN /\ Finish(c, [Res("callback", 302, "auth=error") EXCEPT
                                !.token_info = token_info])
              /\ UNCHANGED session
         ELSE /\ Finish(c, [Res("callback", 302, "") EXCEPT
                                !.token_info = token_info])
              /\ session' =
                   [google_access_token |-> token_info.access_token,
                    google_refresh_token |->
                      IF token_info.refresh_token # Missing
                      THEN token_info.refresh_token
                      ELSE session.google_refresh_token]
  /\ UNCHANGED << calendar_events, lock, nextId, lastFetch, pushed, photos >>

\* --------------------------------------------------- fetch and translate
\* one item of the provider's answer in the local format
ToLocalEvent(event) ==
  LET start_time == event.start
      end_time == event.end
  IN  [id |-> event.id,
       title |-> Get(event.summary, "No Title"),
       description |-> Get(event.description, ""),
       start_date |-> Get(start_time.dateTime, Get(start_time.date, None)),
       end_date |-> Get(end_time.dateTime, Get(end_time.date, None)),
       type |-> "google_calendar",
       created_by |-> "Google Calendar",
       attendees |-> [i \in DOMAIN event.attendees |->
                        Get(event.attendees[i].email, "")],
       location |-> Get(event.location, ""),
       source |-> "google"]

\* what the view function returns: a Response, or a (Response, status) tuple
ViewReturn(tuple, status_code, data, error) ==
  [tuple |-> tuple, status_code |-> status_code, data |-> data,
   error |-> error]

\* as get_google_calendar_events, with a failed fetch answered as an empty
\* list of events
get_google_calendar_events_swallow(access_token, net) ==
  IF ~Falsy(access_token) /\ net.kind = "response" /\ net.status_code = 200
        /\ \A i \in DOMAIN net.items : net.items[i].id # Missing
  THEN ViewReturn(FALSE, 200,
                  [i \in DOMAIN net.items |-> ToLocalEvent(net.items[i])], "")
  ELSE ViewReturn(FALSE, 200, << >>, "")

get_google_calendar_events(access_token, net) ==
  IF Falsy(access_token)
  THEN ViewReturn(TRUE, 401, << >>, "Not authenticated with Google")
  ELSE IF net.kind = "exception"
  THEN ViewReturn(TRUE, 500, << >>, "exception")
  ELSE IF net.status_code = 200
  THEN IF \E i \in DOMAIN net.items : net.items[i].id = Missing
       THEN ViewReturn(TRUE, 500, << >>, "KeyError: 'id'")
       ELSE ViewReturn(FALSE, 200,
                       [i \in DOMAIN net.items |-> ToLocalEvent(net.items[i])],
                       "")
  ELSE ViewReturn(TRUE, net.status_code, << >>,
                  "Failed to fetch Google Calendar events")

\* ------------------------------------------------------------- the table
Row(id, title, description, start_date, end_date, type, created_by, attendees, location, created_at) ==
  [id |-> id, title |-> title, description |-> description,
   start_date |-> start_date, end_date |-> end_date, type |-> type,
   created_by |-> created_by, attendees |-> attendees,
   location |-> location, created_at |-> created_at]

\* title, start_date, type and created_by are NOT NULL (created_at too, and
\* it is always a time)
NotNullViolation(row) ==
  \/ row.title = None
  \/ row.start_date = None
  \/ row.type = None
  \/ row.created_by = None

\* as Snapshot, without isolation: the writes of the open transaction of
\* any connection are visible
Snapshot_dirty(c) ==
  IF lock \in Clients THEN Apply(calendar_events, loc[lock].tx)
  ELSE Apply(calendar_events, loc[c].tx)

\* what a statement of client c sees: the committed rows and the writes of
\* its own open transaction; what another connection has written and not
\* committed is invisible
Snapshot(c) == Apply(calendar_events, loc[c].tx)

\* as CanWrite, without the write lock
CanWrite_unlocked(c) == TRUE

\* a write statement of client c gets SQLite's write lock
CanWrite(c) == lock \in {NoClient, c}

\* a commit, by a sync or by any other writer: the history it leaves
Committed(rows) ==
  /\ calendar_events' = rows
  /\ pushed' = {i \in pushed : \E r \in rows : r.id = i}

\* ------------------------------------------------------------------ sync
\* the test of line 842; a tuple has no status_code (AttributeError)
SyncProceeds(google_events_response) ==
  /\ ~google_events_response.tuple
  /\ google_events_response.status_code = 200

\* as DeleteGoogleSync, without the WHERE clause
DeleteGoogleSync_all(rows) == rows

\* as DeleteGoogleSync, deleting nothing
DeleteGoogleSync_none(rows) == {}

\* the rows of DELETE FROM calendar_events WHERE type = "google_sync"
DeleteGoogleSync(rows) == {r \in rows : r.type = "google_sync"}

\* as SyncRow, with start_date and end_date in each other's column
SyncRow_swapped(event_id, event, now) ==
  Row(event_id, event.title, event.description, event.end_date,
      event.start_date, "google_sync", "Google Calendar",
      json_dumps(event.attendees), event.location, now)

\* the row the sync inserts for one fetched event
SyncRow(event_id, event, now) ==
  Row(event_id, event.title, event.description, event.start_date,
      event.end_date, "google_sync", "Google Calendar",
      json_dumps(event.attendees), event.location, now)

RemoteSync(rows) == {r \in rows : r.type = "google_sync"}

Local(rows) == {r \in rows : r.type # "google_sync"}

\* the columns a sync copies from a fetched event
SyncedFields ==
  {"title", "description", "start_date", "end_date", "location"}

\* row r holds fetched event e
Holds(r, e) ==
  /\ \A f \in SyncedFields : r[f] = e[f]
  /\ json_loads(r.attendees) = e.attendees
  /\ r.created_by = "Google Calendar"

\* the rows correspond one to one to the events of the list
Corresponds(rows, events) ==
  /\ Cardinality(rows) = Len(events)
  /\ \A r \in rows : \E i \in DOMAIN events : Holds(r, events[i])
  /\ \A i \in DOMAIN events :
       Cardinality({r \in rows : Holds(r, events[i])})
         = Cardinality({j \in DOMAIN events : events[j] = events[i]})

\* up to the request to the provider (the call of line 733)
SyncRequest(c) ==
  /\ Send(c)
  /\ LET access_token == session.google_access_token
     IN  IF Falsy(access_token)
         THEN Finish(c, Res("sync", 500, "AttributeError"))
         ELSE /\ pc' = [pc EXCEPT ![c] = "sync_sent"]
              /\ loc' = [loc EXCEPT ![c] =
                           [IdleLoc EXCEPT !.op = "sync",
                                           !.access_token = access_token]]
              /\ response' = NoResponse
  /\ UNCHANGED << calendar_events, lock, session,
                  nextId, lastFetch, pushed, photos >>

\* the provider answers; a failed fetch leaves the handler through its
\* except clause
SyncResponse(c) ==
  /\ pc[c] = "sync_sent"
  /\ \E net \in ListOutcomes :
       LET google_events_response ==
             get_google_calendar_events(loc[c].access_token, net)
       IN  IF SyncProceeds(google_events_response)
           THEN /\ pc' = [pc EXCEPT ![c] = "sync_fetched"]
                /\ loc' = [loc EXCEPT
                             ![c].net = net,
                             ![c].google_events = google_events_response.data]
                /\ lastFetch' = [ok |-> TRUE,
                                 events |-> google_events_response.data]
                /\ response' = NoResponse
           ELSE /\ Finish(c, [Res("sync", 500, "AttributeError") EXCEPT
                                !.net = net])
                /\ UNCHANGED lastFetch
  /\ UNCHANGED << requests, calendar_events, lock,
                  session, nextId, pushed, photos >>

\* the DELETE opens the transaction and takes the write lock
SyncDelete(c) ==
  /\ pc[c] = "sync_fetched"
  /\ CanWrite(c)
  /\ lock' = c
  /\ pc' = [pc EXCEPT ![c] = "sync_insert"]
  /\ loc' = [loc EXCEPT
               ![c].tx = [deleted |-> DeleteGoogleSync(Snapshot(c)),
                          inserted |-> {}],
               ![c].tx_start = calendar_events,
               ![c].repeat = Corresponds(RemoteSync(calendar_events),
                                         loc[c].google_events)]
  /\ response' = NoResponse
  /\ UNCHANGED << requests, calendar_events, session,
                  nextId, lastFetch, pushed, photos >>

\* another connection kept the write lock for longer than the busy timeout
SyncLocked(c) ==
  /\ pc[c] = "sync_fetched"
  /\ ~CanWrite(c)
  /\ Finish(c, [Res("sync", 500, "database is locked") EXCEPT
                  !.net = loc[c].net])
  /\ UNCHANGED << requests, calendar_events, lock, session,
                  nextId, lastFetch, pushed, photos >>

\* one turn of the insert loop; an IntegrityError leaves the handler through
\* the except clause and the abandoned connection rolls back
SyncInsert(c) ==
  /\ pc[c] = "sync_insert"
  /\ loc[c].inserted < Len(loc[c].google_events)
  /\ LET event == loc[c].google_events[loc[c].inserted + 1]
         row == SyncRow(nextId, event, Now(nextId))
     IN  IF NotNullViolation(row)
         THEN /\ Finish(c, [Res("sync", 500, "IntegrityError") EXCEPT
                                !.net = loc[c].net])
              /\ lock' = IF lock = c THEN NoClient ELSE lock
              /\ UNCHANGED nextId
         ELSE /\ loc' = [loc EXCEPT ![c].tx.inserted = @ \cup {row},
                                    ![c].inserted = @ + 1]
              /\ nextId' = nextId + 1
              /\ response' = NoResponse
              /\ UNCHANGED << pc, lock >>
  /\ UNCHANGED << requests, calendar_events, session,
                  lastFetch, pushed, photos >>

\* conn.commit() and the response
SyncCommit(c) ==
  /\ pc[c] = "sync_insert"
  /\ loc[c].inserted = Len(loc[c].google_events)
  /\ Committed(Snapshot(c))
  /\ lock' = IF lock = c THEN NoClient ELSE lock
  /\ pc' = [pc EXCEPT ![c] = "idle"]
  /\ loc' = [q \in Clients |->
               IF q = c THEN IdleLoc
               ELSE IF loc[q].op = "sync" THEN [loc[q] EXCEPT !.raced = TRUE]
               ELSE loc[q]]
  /\ response' = [Res("sync", 200, "") EXCEPT
                    !.net = loc[c].net,
                    !.synced = Len(loc[c].google_events),
                    !.google_events = loc[c].google_events,
                    !.deleted = Cardinality(loc[c].tx.deleted),
                    !.raced = loc[c].raced,
                    !.repeat = loc[c].repeat]
  /\ UNCHANGED << requests, session, nextId, lastFetch, photos >>

sync_google_calendar(c) ==
  \/ SyncRequest(c)
  \/ SyncResponse(c)
  \/ SyncDelete(c)
  \/ SyncLocked(c)
  \/ SyncInsert(c)
  \/ SyncCommit(c)

\* ------------------------------------------------------------------ push
\* as PushKeyError, with end_date optional
PushKeyError_noend(data) ==
  \/ data.title = Missing
  \/ data.start_date = Missing

\* data['title'], data['start_date'] or data['end_date'] raises KeyError
PushKeyError(data) ==
  \/ data.title = Missing
  \/ data.start_date = Missing
  \/ data.end_date = Missing

\* the row the push inserts for the draft it sent to the provider
PushRow(event_id, data, now) ==
  Row(event_id, data.title, Get(data.description, ""), data.start_date,
      data.end_date, "google_sync", Get(data.created_by, "System"),
      json_dumps(data.attendees), Get(data.location, ""), now)

\* up to the request to the provider (the call of line 797)
PushRequest(c) ==
  /\ Send(c)
  /\ \E data \in Drafts :
       IF Falsy(session.google_access_token)
       THEN Finish(c, [Res("push", 401, "Not authenticated with Google")
                         EXCEPT !.data = data])
       ELSE IF PushKeyError(data)
       THEN Finish(c, [Res("push", 500, "KeyError") EXCEPT !.data = data])
       ELSE /\ pc' = [pc EXCEPT ![c] = "push_sent"]
            /\ loc' = [loc EXCEPT ![c] =
                         [IdleLoc EXCEPT
                            !.op = "push",
                            !.access_token = session.google_access_token,
                            !.data = data]]
            /\ response' = NoResponse
  /\ UNCHANGED << calendar_events, lock, session,
                  nextId, lastFetch, pushed, photos >>

\* the provider answers
PushResponse(c) ==
  /\ pc[c] = "push_sent"
  /\ \E net \in CreateOutcomes :
       IF net.kind = "exception"
       THEN Finish(c, [Res("push", 500, "exception") EXCEPT
                         !.net = net, !.data = loc[c].data])
       ELSE IF net.status_code = 200
       THEN /\ pc' = [pc EXCEPT ![c] = "push_created"]
            /\ loc' = [loc EXCEPT ![c].net = net]
            /\ response' = NoResponse
       ELSE Finish(c, [Res("push", net.status_code,
                           "Failed to create Google Calendar event")
                         EXCEPT !.net = net, !.data = loc[c].data])
  /\ UNCHANGED << requests, calendar_events, lock, session,
                  nextId, lastFetch, pushed, photos >>

\* the local copy, committed, and the response (google_event['id'])
PushInsert(c) ==
  /\ pc[c] = "push_created"
  /\ CanWrite(c)
  /\ calendar_events' =
       Snapshot(c) \cup {PushRow(nextId, loc[c].data, Now(nextId))}
  /\ pushed' = pushed \cup {nextId}
  /\ nextId' = nextId + 1
  /\ IF loc[c].net.id = Missing
     THEN Finish(c, [Res("push", 500, "KeyError: 'id'") EXCEPT
                       !.net = loc[c].net, !.data = loc[c].data])
     ELSE Finish(c, [Res("push", 200, "") EXCEPT
                       !.net = loc[c].net, !.data = loc[c].data,
                       !.id = loc[c].net.id])
  /\ UNCHANGED << requests, lock, session, lastFetch, photos >>

PushLocked(c) ==
  /\ pc[c] = "push_created"
  /\ ~CanWrite(c)
  /\ Finish(c, [Res("push", 500, "database is locked") EXCEPT
                  !.net = loc[c].net, !.data = loc[c].data])
  /\ UNCHANGED << requests, calendar_events, lock, session,
                  nextId, lastFetch, pushed, photos >>

create_google_calendar_event(c) ==
  \/ PushRequest(c)
  \/ PushResponse(c)
  \/ PushInsert(c)
  \/ PushLocked(c)

\* ------------------------------------------------- the calendar endpoints
\* WHERE start_date >= ? AND start_date <= ?, when both arguments are given
InRange(r, range) ==
  \/ Falsy(range.start_date)
  \/ Falsy(range.end_date)
  \/ /\ Rank(r.start_date) >= Rank(range.start_date)
     /\ Rank(r.start_date) <= Rank(range.end_date)

\* ORDER BY start_date ASC; rows of equal start_date in insertion order
Before(a, b) ==
  \/ Rank(a.start_date) < Rank(b.start_date)
  \/ Rank(a.start_date) = Rank(b.start_date) /\ a.id < b.id

RECURSIVE OrderByStartDate(_)
OrderByStartDate(rows) ==
  IF rows = {} THEN << >>
  ELSE LET first == CHOOSE r \in rows : \A q \in rows \ {r} : Before(r, q)
       IN  << first >> \o OrderByStartDate(rows \ {first})

\* event['attendees'] = json.loads(event['attendees'] or '[]')
ParseAttendees(r) == [r EXCEPT !.attendees = json_loads(r.attendees)]

SelectEvents(rows, range) ==
  LET events == OrderByStartDate({r \in rows : InRange(r, range)})
  IN  [i \in DOMAIN events |-> ParseAttendees(events[i])]

\* GET /api/calendar/events
GetEvents(c) ==
  /\ Send(c)
  /\ \E range \in Ranges :
       Finish(c, [Res("read", 200, "") EXCEPT
                    !.events = SelectEvents(Snapshot(c), range),
                    !.range = range,
                    !.mid = IF \E q \in Clients : pc[q] = "sync_insert"
                            THEN CHOOSE q \in Clients : pc[q] = "sync_insert"
                            ELSE NoClient])
  /\ UNCHANGED << calendar_events, lock, session,
                  nextId, lastFetch, pushed, photos >>

\* data['title'], data['start_date'] or data['created_by'] raises KeyError
PostKeyError(data) ==
  \/ data.title = Missing
  \/ data.start_date = Missing
  \/ data.created_by = Missing

PostRow(event_id, data, now) ==
  Row(event_id, data.title, Get(data.description, ""), data.start_date,
      Get(data.end_date, None), Get(data.type, "event"), data.created_by,
      json_dumps(data.attendees), Get(data.location, ""), now)

\* POST /api/calendar/events
PostEvent(c) ==
  /\ Send(c)
  /\ \E data \in Drafts :
       IF PostKeyError(data)
       THEN /\ Finish(c, Res("post", 500, "KeyError"))
            /\ UNCHANGED << calendar_events, nextId, pushed >>
       ELSE IF ~CanWrite(c)
       THEN /\ Finish(c, Res("post", 500, "database is locked"))
            /\ UNCHANGED << calendar_events, nextId, pushed >>
       ELSE /\ Committed(Snapshot(c) \cup {PostRow(nextId, data, Now(nextId))})
            /\ nextId' = nextId + 1
            /\ Finish(c, [Res("post", 201, "") EXCEPT !.event_id = nextId])
  /\ UNCHANGED << lock, session, lastFetch, photos >>

handle_calendar_events(c) ==
  \/ GetEvents(c)
  \/ PostEvent(c)

\* data['title'] or data['start_date'] raises KeyError
PutKeyError(data) ==
  \/ data.title = Missing
  \/ data.start_date = Missing

\* UPDATE calendar_events SET title=?, ..., type=?, ... WHERE id=?
UpdateRow(r, data) ==
  [r EXCEPT !.title = data.title,
            !.description = Get(data.description, ""),
            !.start_date = data.start_date,
            !.end_date = Get(data.end_date, None),
            !.type = Get(data.type, "event"),
            !.attendees = json_dumps(data.attendees),
            !.location = Get(data.location, "")]

\* PUT /api/calendar/events/<event_id>
PutEvent(c) ==
  /\ Send(c)
  /\ \E event_id \in 1..nextId, data \in Drafts :
       IF PutKeyError(data)
       THEN /\ Finish(c, Res("put", 500, "KeyError"))
            /\ UNCHANGED << calendar_events, pushed >>
       ELSE IF ~CanWrite(c)
       THEN /\ Finish(c, Res("put", 500, "database is locked"))
            /\ UNCHANGED << calendar_events, pushed >>
       ELSE /\ Committed({IF r.id = event_id THEN UpdateRow(r, data) ELSE r :
                            r \in Snapshot(c)})
            /\ Finish(c, Res("put", 200, ""))
  /\ UNCHANGED << lock, session, nextId, lastFetch, photos >>

\* DELETE /api/calendar/events/<event_id>
DeleteEvent(c) ==
  /\ Send(c)
  /\ \E event_id \in 1..nextId :
       IF ~CanWrite(c)
       THEN /\ Finish(c, Res("delete", 500, "database is locked"))
            /\ UNCHANGED << calendar_events, pushed >>
       ELSE /\ Committed({r \in Snapshot(c) : r.id # event_id})
            /\ Finish(c, Res("delete", 200, ""))
  /\ UNCHANGED << lock, session, nextId, lastFetch, photos >>

handle_calendar_event(c) ==
  \/ PutEvent(c)
  \/ DeleteEvent(c)

\* ----------------------------------------------------------- photo likes
\* likes.remove(user) if user in likes, else likes.append(user)
ToggleLike(likes, user) ==
  IF \E i \in DOMAIN likes : likes[i] = user
  THEN LET first == CHOOSE i \in DOMAIN likes :
                      /\ likes[i] = user
                      /\ \A j \in 1..(i - 1) : likes[j] # user
       IN  SubSeq(likes, 1, first - 1) \o SubSeq(likes, first + 1, Len(likes))
  ELSE Append(likes, user)

\* up to the SELECT and the toggle of the list it read
LikeSelect(c) ==
  /\ Send(c)
  /\ \E photo_id \in PhotoIds \cup {NoPhoto}, user \in {LikeUser(c), Missing} :
       IF user = Missing
       THEN Finish(c, Res("like", 500, "KeyError"))
       ELSE IF photo_id \notin DOMAIN photos
       THEN Finish(c, [Res("like", 200, "") EXCEPT
                         !.user = user, !.photo_id = photo_id])
       ELSE /\ pc' = [pc EXCEPT ![c] = "like_update"]
            /\ loc' = [loc EXCEPT ![c] =
                         [IdleLoc EXCEPT
                            !.op = "like",
                            !.user = user,
                            !.photo_id = photo_id,
                            !.likes = ToggleLike(json_loads(photos[photo_id]),
                                                 user)]]
            /\ response' = NoResponse
  /\ UNCHANGED << photos, lock >>
  /\ UNCHANGED << calendar_events, session, nextId, lastFetch, pushed >>

\* the UPDATE opens the transaction and takes the write lock
LikeUpdate(c) ==
  /\ pc[c] = "like_update"
  /\ CanWrite(c)
  /\ lock' = c
  /\ pc' = [pc EXCEPT ![c] = "like_commit"]
  /\ response' = NoResponse
  /\ UNCHANGED << requests, photos, loc >>
  /\ UNCHANGED << calendar_events, session, nextId, lastFetch, pushed >>

\* another connection kept the write lock for longer than the busy timeout
LikeLocked(c) ==
  /\ pc[c] = "like_update"
  /\ ~CanWrite(c)
  /\ Finish(c, [Res("like", 500, "database is locked") EXCEPT
                  !.user = loc[c].user, !.photo_id = loc[c].photo_id])
  /\ UNCHANGED << requests, photos, lock >>
  /\ UNCHANGED << calendar_events, session, nextId, lastFetch, pushed >>

\* conn.commit() and the response
LikeCommit(c) ==
  /\ pc[c] = "like_commit"
  /\ photos' = [photos EXCEPT ![loc[c].photo_id] = json_dumps(loc[c].likes)]
  /\ lock' = IF lock = c THEN NoClient ELSE lock
  /\ Finish(c, [Res("like", 200, "") EXCEPT
                  !.user = loc[c].user, !.photo_id = loc[c].photo_id])
  /\ UNCHANGED requests
  /\ UNCHANGED << calendar_events, session, nextId, lastFetch, pushed >>

toggle_photo_like(c) ==
  \/ LikeSelect(c)
  \/ LikeUpdate(c)
  \/ LikeLocked(c)
  \/ LikeCommit(c)

\* the photo endpoint by itself: it reads and writes table photos only
PhotoNext == \E c \in Clients : toggle_photo_like(c)

PhotoSpec == Init /\ [][PhotoNext]_vars

\* ------------------------------------------------------ the specification
\* a request that runs in one step is sent by the first idle client: which
\* client sends it makes no difference to the state it leaves
FirstIdle(c) ==
  \E i \in DOMAIN ClientOrder :
    /\ ClientOrder[i] = c
    /\ \A j \in 1..(i - 1) : pc[ClientOrder[j]] # "idle"

Next ==
  \E c \in Clients :
    \/ sync_google_calendar(c)
    \/ create_google_calendar_event(c)
    \/ /\ FirstIdle(c)
       /\ \/ google_auth(c)
          \/ google_auth_status(c)
          \/ google_callback(c)
          \/ handle_calendar_events(c)
          \/ handle_calendar_event(c)

Spec == Init /\ [][Next]_vars

\* ------------------------------------------------------------- the claims
\* the response of a sync that committed
SyncDone(res) == res.op = "sync" /\ res.status_code = 200

\* the provider's answer to events.list is a failure
ListFailed(net) ==
  \/ net.kind = "exception"
  \/ net.kind = "response" /\ net.status_code # 200

\* the events of a response list that are remote_sync rows
RemoteEvents(events) == SelectSeq(events, LAMBDA e : e.type = "google_sync")

\* a row without its id / without its id and its time of insertion
Values(r) == [f \in DOMAIN r \ {"id"} |-> r[f]]

Content(r) == [f \in DOMAIN r \ {"id", "created_at"} |-> r[f]]

\* C1: after every successful sync the remote_sync rows of the table
\* correspond one to one, field for field, to the events of that sync's
\* fetch: the stale rows are gone and no other remote_sync row is there.
C1_SyncReplacesRemote ==
  SyncDone(response) =>
    Corresponds(RemoteSync(calendar_events), response.google_events)

\* a sync of two events has replaced stale rows
C1_Witness ==
  /\ SyncDone(response)
  /\ Len(response.google_events) = 2
  /\ response.deleted > 0
  /\ ~response.repeat

\* C2: no step of a sync alters or removes a row that is not of type
\* google_sync, whatever the table holds and whatever the fetch returned.
C2_SyncKeepsLocal ==
  [][(\/ response'.op = "sync"
      \/ \E c \in Clients : loc[c].op = "sync" /\ loc'[c] # loc[c])
       => Local(calendar_events') = Local(calendar_events)]_vars

\* one local row and two remote_sync rows, and a sync of no event: the local
\* row is left and no remote_sync row
C2_Witness ==
  /\ SyncDone(response)
  /\ response.google_events = << >>
  /\ response.deleted = 2
  /\ Cardinality(Local(calendar_events)) = 1
  /\ RemoteSync(calendar_events) = {}

\* C3: when the fetch fails (a status other than 200, or no answer), the
\* sync responds with a failure, it has written nothing, and the step leaves
\* the table as it was.
C3_FailedFetchKeepsStore ==
  [][(response'.op = "sync" /\ ListFailed(response'.net))
       => /\ response'.status_code >= 400
          /\ calendar_events' = calendar_events
          /\ \A c \in Clients :
               (loc[c].op = "sync" /\ pc'[c] = "idle") => loc[c].tx = NoTx]_vars

\* a fetch has failed over a table that holds rows
C3_Witness ==
  /\ response.op = "sync"
  /\ ListFailed(response.net)
  /\ response.status_code = 500
  /\ RemoteSync(calendar_events) # {}
  /\ Local(calendar_events) # {}

\* C4: a range query that runs while a sync is between its DELETE and its
\* commit lists the remote_sync rows that were committed when the sync began,
\* all of them and no other: never the rows the sync has deleted or inserted
\* so far.
C4_ReaderSeesCommitted ==
  (response.op = "read" /\ response.mid # NoClient)
    => RemoteEvents(response.events)
         = RemoteEvents(SelectEvents(loc[response.mid].tx_start,
                                     response.range))

\* a range query has run while a sync had deleted stale rows and inserted
\* one of its two rows
C4_Witness ==
  /\ response.op = "read"
  /\ response.mid # NoClient
  /\ response.range = NoRange
  /\ loc[response.mid].tx.deleted # {}
  /\ loc[response.mid].inserted = 1
  /\ Len(loc[response.mid].google_events) = 2
  /\ RemoteEvents(response.events) # << >>

\* C5: when another sync has committed between the fetch and the commit of
\* a sync, the remote_sync rows after the later commit are those of the later
\* sync's fetch alone: no union or mixture of the two, no row twice.
C5_ConcurrentSyncsSerialized ==
  (SyncDone(response) /\ response.raced)
    => Corresponds(RemoteSync(calendar_events), response.google_events)

\* a sync that was overtaken has replaced the rows of the sync that overtook
C5_Witness ==
  /\ SyncDone(response)
  /\ response.raced
  /\ response.deleted > 0
  /\ ~response.repeat
  /\ response.google_events # << >>

\* C6: whenever no sync is between DELETE and commit, every remote_sync row
\* holds an event of the most recent successful fetch.
C6_RemoteFromLatestFetch ==
  (\A c \in Clients : pc[c] # "sync_insert")
    => \A r \in RemoteSync(calendar_events) :
         /\ lastFetch.ok
         /\ \E i \in DOMAIN lastFetch.events : Holds(r, lastFetch.events[i])

\* C7: a sync that finds the rows of an equal fetch in place leaves
\* remote_sync rows with the same field values, ids apart, and as many.
C7_RepeatedSyncSameValues ==
  [][(SyncDone(response') /\ response'.repeat)
       => /\ {Values(r) : r \in RemoteSync(calendar_events')}
               = {Values(r) : r \in RemoteSync(calendar_events)}
          /\ Cardinality(RemoteSync(calendar_events'))
               = Cardinality(RemoteSync(calendar_events))]_vars

\* C7, amended: a sync that finds the rows of an equal fetch in place leaves
\* remote_sync rows with the same field values, ids and created_at apart,
\* and as many.
C7_RepeatedSyncSameContent ==
  [][(SyncDone(response') /\ response'.repeat)
       => /\ {Content(r) : r \in RemoteSync(calendar_events')}
               = {Content(r) : r \in RemoteSync(calendar_events)}
          /\ Cardinality(RemoteSync(calendar_events'))
               = Cardinality(RemoteSync(calendar_events))]_vars

\* a sync has found the rows of an equal fetch of two events and replaced them
C7_Witness ==
  /\ SyncDone(response)
  /\ response.repeat
  /\ Len(response.google_events) = 2
  /\ response.deleted = 2

\* an item of the provider's answer that cannot be translated or stored
Malformed(item) ==
  \/ item.id = Missing
  \/ item.start.dateTime = Missing /\ item.start.date = Missing

\* C8: a sync whose fetch returned n events, k of them malformed, and that
\* got the write lock succeeds, reports n - k synced events and leaves
\* n - k remote_sync rows.
C8_MalformedEventsSkipped ==
  (/\ response.op = "sync"
   /\ response.net.kind = "response"
   /\ response.net.status_code = 200
   /\ response.error # "database is locked")
    => LET n == Len(response.net.items)
           k == Cardinality({i \in DOMAIN response.net.items :
                               Malformed(response.net.items[i])})
       IN  /\ response.status_code = 200
           /\ response.synced = n - k
           /\ Cardinality(RemoteSync(calendar_events)) = n - k

\* the text columns of a row
TextFields ==
  {"title", "description", "start_date", "end_date", "type", "created_by",
   "location"}

\* C9: a successful push inserts exactly one row, its type is not
\* google_sync, and one of its columns holds the id the provider returned.
C9_PushInsertsLocalRow ==
  [][(response'.op = "push" /\ response'.status_code = 200)
       => LET new == calendar_events' \ calendar_events
          IN  /\ Cardinality(new) = 1
              /\ calendar_events \subseteq calendar_events'
              /\ \A r \in new :
                   /\ r.type # "google_sync"
                   /\ \E f \in TextFields : r[f] = response'.id]_vars

\* C10: a row a push inserted is still in the table, unchanged, after every
\* successful sync.
C10_PushedRowSurvivesSync ==
  [][SyncDone(response')
       => \A r \in calendar_events :
            r.id \in pushed => r \in calendar_events']_vars

C12_SyncWithoutSessionUnauthorized ==
  [][(response'.op = "sync" /\ ~Authenticated(session))
       => /\ response'.status_code = 401
          /\ response'.net = NoNet
          /\ calendar_events' = calendar_events]_vars

\* C13: the status query answers true exactly when the session holds an
\* access token: false before any successful exchange, and the session
\* holds a token right after an exchange that returned a non-empty one.
C13_StatusIffAccessToken ==
  /\ response.op = "status"
       => (response.authenticated <=> session.google_access_token # Missing)
  /\ (response.op = "status" /\ session = NoSession)
       => ~response.authenticated
  /\ (/\ response.op = "callback"
      /\ response.token_info.kind = "response"
      /\ response.token_info.access_token \notin {Missing, None, ""})
       => session.google_access_token # Missing

\* the status query has answered true after an exchange that returned an
\* access token and no refresh token
C13_Witness ==
  /\ response.op = "status"
  /\ response.authenticated
  /\ session.google_access_token = "at2"
  /\ session.google_refresh_token = Missing

\* C14: the session changes only in a step that ends a successful code
\* exchange: a failed exchange, the consent URL, the status query, sync and
\* push steps leave it as it was; a session that holds an access token
\* holds one ever after.
C14_OnlyExchangeChangesSession ==
  [][/\ session' # session
          => /\ response'.op = "callback"
             /\ response'.status_code = 302
             /\ response'.error = ""
             /\ response'.token_info.access_token # Missing
     /\ session.google_access_token # Missing
          => session'.google_access_token # Missing]_vars

\* an exchange has failed under a session that holds tokens
C14_Witness ==
  /\ response.op = "callback"
  /\ response.error = "auth=error"
  /\ session.google_access_token # Missing
  /\ session.google_refresh_token # Missing

\* C15: after a successful code exchange the session holds the pair of that
\* exchange: its access token, and its refresh token or none when it
\* returned none; never the access token of one exchange beside the refresh
\* token of another.
C15_SessionHoldsLatestPair ==
  (/\ response.op = "callback"
   /\ response.status_code = 302
   /\ response.error = "")
    => /\ session.google_access_token = response.token_info.access_token
       /\ session.google_refresh_token = response.token_info.refresh_token

\* the state of the sync pass of a request that stands at p
SyncPhase(p) ==
  IF p = "sync_sent" THEN "Fetching"
  ELSE IF p \in {"sync_fetched", "sync_insert"} THEN "Reconciling"
  ELSE "Idle"

\* C16: a sync pass goes from Idle to Unauthorized or Fetching, from
\* Fetching to FetchFailed or Reconciling, from Reconciling to Done and
\* nowhere else; only the step to Done changes the table, and a pass that
\* reports failure has changed nothing.
C16_SyncPassStateMachine ==
  [][/\ \A c \in Clients :
          LET from == SyncPhase(pc[c])
              to == SyncPhase(pc'[c])
          IN  /\ (from = "Idle" /\ to # "Idle") => to = "Fetching"
              /\ (from = "Fetching" /\ pc'[c] # pc[c])
                   => \/ to = "Reconciling"
                      \/ /\ to = "Idle"
                         /\ response'.op = "sync"
                         /\ response'.status_code >= 400
              /\ (from = "Reconciling" /\ pc'[c] # pc[c])
                   => \/ to = "Reconciling"
                      \/ to = "Idle" /\ SyncDone(response')
     /\ (/\ \E c \in Clients : loc[c].op = "sync" /\ loc'[c] # loc[c]
         /\ calendar_events' # calendar_events)
          => SyncDone(response')
     /\ (response'.op = "sync" /\ ~SyncDone(response'))
          => calendar_events' = calendar_events]_vars

\* the outcome a caller reads from a failed response
Outcome(res) ==
  IF res.status_code \in {401, 403} THEN "Unauthorized"
  ELSE IF res.error = "exception" THEN "NetworkError"
  ELSE "ProviderError"

\* the outcome of a failed events.list call
ListOutcome(net) ==
  IF net.kind = "exception" THEN "NetworkError"
  ELSE IF net.status_code \in {401, 403} THEN "Unauthorized"
  ELSE "ProviderError"

\* C17: the response of a sync whose fetch failed tells how it failed:
\* unauthorized for a provider's 401 or 403, the provider's status for any
\* other status, a network error when the provider gave no answer.
C17_FetchFailurePropagated ==
  (response.op = "sync" /\ ListFailed(response.net))
    => /\ Outcome(response) = ListOutcome(response.net)
       /\ response.net.kind = "response"
            => response.status_code = response.net.status_code

\* the steps a handler takes by itself, once the provider has answered: the
\* server runs them; when the provider answers, and whether a client sends
\* a request, is not the server's to decide
HandlerStep(c) ==
  \/ SyncDelete(c)
  \/ SyncLocked(c)
  \/ SyncInsert(c)
  \/ SyncCommit(c)
  \/ PushInsert(c)
  \/ PushLocked(c)

LiveSpec == Spec /\ \A c \in Clients : WF_vars(HandlerStep(c))

\* C18: every request ends with a response, also when the provider never
\* answers.
C18_RequestsTerminate ==
  \A c \in Clients : (pc[c] # "idle") ~> (pc[c] = "idle")

\* C19: the response of a successful push carries the id the provider
\* assigned and the id of a row that is in the table.
C19_PushReturnsBothIds ==
  (response.op = "push" /\ response.status_code = 200)
    => /\ response.id # Missing
       /\ \E r \in calendar_events : r.id = response.event_id

\* the provider accepted the create request: the remote event exists
Accepted(net) == net.kind = "response" /\ net.status_code \in 200..299

\* C20: a push that reports failure has created no remote event and
\* inserted no row; a push the provider accepted reports success and has
\* inserted its row.
C20_PushAllOrNothing ==
  [][response'.op = "push"
       => /\ Accepted(response'.net)
               => /\ response'.error = ""
                  /\ calendar_events' \ calendar_events # {}
          /\ response'.error # ""
               => /\ ~Accepted(response'.net)
                  /\ calendar_events' = calendar_events]_vars

\* C21: the create endpoint never stores a row of type google_sync, and no
\* step changes whether a stored row is of type google_sync.
C21_ProvenanceFixed ==
  [][/\ response'.op = "post"
          => \A r \in calendar_events' \ calendar_events :
               r.type # "google_sync"
     /\ \A r \in calendar_events : \A q \in calendar_events' :
          r.id = q.id
            => (r.type = "google_sync" <=> q.type = "google_sync")]_vars

\* the users of a likes column
Likers(text) == {json_loads(text)[i] : i \in DOMAIN json_loads(text)}

\* C22: every like request that succeeds on a photo flips its user in the
\* stored list and leaves every other user as the list then has them, so
\* that no toggle of another user is lost; no user is in the list twice.
C22_LikesNotLost ==
  [][(/\ response'.op = "like"
      /\ response'.status_code = 200
      /\ response'.photo_id \in PhotoIds)
       => LET photo_id == response'.photo_id
              user == response'.user
              before == Likers(photos[photo_id])
              after == json_loads(photos'[photo_id])
          IN  /\ Likers(photos'[photo_id])
                   = (before \ {user}) \cup ({user} \ before)
              /\ \A i, j \in DOMAIN after :
                   after[i] = after[j] => i = j]_vars

====
